---- MODULE Spec2Model ----
(***************************************************************************)
(* Asynchronous job and streaming dispatcher of the chat backend:          *)
(* the assistant-response worker, its stream driver, the WebSocket session *)
(* registry and the job / message rows they persist.                       *)
(*                                                                         *)
(* One action is the code a task runs between two suspension points        *)
(* (asyncio is cooperative: only an await lets another task run).  The     *)
(* synchronous code of each worker is written as operators over a record   *)
(* w (rows, registry, the task's locals) and chained by Run.               *)
(***************************************************************************)
EXTENDS Integers, Sequences, FiniteSets, TLC

\* ------------------------------------------------------------------ bounds
MaxChunks == 1
MaxChannels == 2

Channels == 1..MaxChannels

\* The texts a client posts: an empty one and an ordinary one.
UserTexts == {"", "hello"}

\* websocket_endpoint: the user id a connection is registered under
\* (settings.default_user unless a token names another subject).
UserOf(c) == IF c <= 2 THEN "anonymous" ELSE "sub"

\* Text is a sequence of character classes: "w" a word character, "s" a
\* blank, "n" a newline, "f" a fence of three backticks.
Tokens == { <<"w">>, <<"s", "f", "n", "f">> }

Min(S) == CHOOSE x \in S : \A y \in S : x <= y

\* ------------------------------------------------------------ text helpers
IsSpace(ch) == ch \in {"s", "n"}

RECURSIVE LStrip(_)
LStrip(s) == IF s # <<>> /\ IsSpace(Head(s)) THEN LStrip(Tail(s)) ELSE s

RECURSIVE RStrip(_)
RStrip(s) ==
    IF s # <<>> /\ IsSpace(s[Len(s)]) THEN RStrip(SubSeq(s, 1, Len(s) - 1)) ELSE s

\* str.strip()
Strip(s) == RStrip(LStrip(s))

\* Length of the longest prefix of s made of characters satisfying the class.
RECURSIVE WordRun(_)
WordRun(s) == IF s # <<>> /\ Head(s) = "w" THEN 1 + WordRun(Tail(s)) ELSE 0

RECURSIVE SpaceRun(_)
SpaceRun(s) == IF s # <<>> /\ IsSpace(Head(s)) THEN 1 + SpaceRun(Tail(s)) ELSE 0

Drop(s, n) == SubSeq(s, n + 1, Len(s))

\* Position of the first "f" in s, 0 when there is none.
FirstFence(s) ==
    IF \E i \in DOMAIN s : s[i] = "f"
    THEN Min({i \in DOMAIN s : s[i] = "f"})
    ELSE 0

\* A match of the pattern ```\w*\s*\n.*?``` anchored at the head of s:
\* [len |-> characters matched (0: no match), lang, code].
FenceMatch(s) ==
    IF s = <<>> \/ Head(s) # "f" THEN [len |-> 0, lang |-> <<>>, code |-> <<>>]
    ELSE LET afterFence == Tail(s)
             wl == WordRun(afterFence)
             afterWord == Drop(afterFence, wl)
             sl == SpaceRun(afterWord)
             blanks == SubSeq(afterWord, 1, sl)
             body == Drop(afterWord, sl)
             close == FirstFence(body)
         IN IF (\E i \in DOMAIN blanks : blanks[i] = "n") /\ close > 0
            THEN [len |-> 1 + wl + sl + close,
                  lang |-> SubSeq(afterFence, 1, wl),
                  code |-> Strip(SubSeq(body, 1, close - 1))]
            ELSE [len |-> 0, lang |-> <<>>, code |-> <<>>]

\* re.sub(r'```\w*\s*\n.*?```', '', text, flags=re.DOTALL)
RECURSIVE RemoveFenced(_)
RemoveFenced(s) ==
    IF s = <<>> THEN <<>>
    ELSE LET m == FenceMatch(s)
         IN IF m.len > 0 THEN RemoveFenced(Drop(s, m.len))
            ELSE <<Head(s)>> \o RemoveFenced(Tail(s))

\* re.findall(r'```(\w+)?\s*\n(.*?)```', text): one code block per match.
RECURSIVE CodeBlocks(_)
CodeBlocks(s) ==
    IF s = <<>> THEN <<>>
    ELSE LET m == FenceMatch(s)
         IN IF m.len > 0
            THEN <<[type |-> "code", language |-> m.lang, code |-> m.code]>>
                 \o CodeBlocks(Drop(s, m.len))
            ELSE CodeBlocks(Tail(s))

\* LLMService.extract_blocks_from_response on this alphabet (no JSON, SPL,
\* SQL or chart keyword can be spelled with it).
extract_blocks_from_response(response_text) ==
    [text |-> Strip(RemoveFenced(response_text)), blocks |-> CodeBlocks(response_text)]

\* ---------------------------------------------------------------- registry
\* active_connections: a dict user id -> list of channels.  A dict keeps
\* its entries in insertion order and a deleted key leaves a dead entry
\* behind; a running iterator holds a position in that entry array.
LiveEntries(reg) == {p \in DOMAIN reg : reg[p].live}

\* len(self.active_connections)
DictLen(reg) == Cardinality(LiveEntries(reg))

KeyIdx(reg, u) ==
    IF \E p \in LiveEntries(reg) : reg[p].user = u
    THEN CHOOSE p \in LiveEntries(reg) : reg[p].user = u
    ELSE 0

RECURSIVE SumLens(_, _)
SumLens(reg, p) ==
    IF p > Len(reg) THEN 0
    ELSE (IF reg[p].live THEN Len(reg[p].conns) ELSE 0) + SumLens(reg, p + 1)

\* sum(len(conns) for conns in self.active_connections.values())
TotalConnections(reg) == SumLens(reg, 1)

\* WebSocketManager.connect
Connect(reg, c, u) ==
    IF KeyIdx(reg, u) = 0
    THEN Append(reg, [user |-> u, conns |-> <<c>>, live |-> TRUE])
    ELSE [reg EXCEPT ![KeyIdx(reg, u)].conns = Append(@, c)]

\* list.remove(x): drops the first occurrence.
ListRemove(l, x) ==
    LET i == Min({k \in DOMAIN l : l[k] = x})
    IN SubSeq(l, 1, i - 1) \o SubSeq(l, i + 1, Len(l))

InList(l, x) == \E k \in DOMAIN l : l[k] = x

\* WebSocketManager.disconnect: [reg, raised]; list.remove raises ValueError
\* when the channel is not in the user's list.
Disconnect(reg, c, u) ==
    LET p == KeyIdx(reg, u)
    IN IF p = 0 THEN [reg |-> reg, raised |-> FALSE]
       ELSE IF ~InList(reg[p].conns, c) THEN [reg |-> reg, raised |-> TRUE]
       ELSE LET rest == ListRemove(reg[p].conns, c)
            IN [reg |-> [reg EXCEPT ![p].conns = rest, ![p].live = (rest # <<>>)],
                raised |-> FALSE]

Registered(reg, c) == \E p \in LiveEntries(reg) : InList(reg[p].conns, c)

\* The channels in the lists of active_connections.
RegisteredSet(reg) == {c \in Channels : Registered(reg, c)}

\* --------------------------------------------------------------- variables
VARIABLES
    settings,     \* mock_responses_enabled, streaming_enabled, LLM available
    jobs,         \* table "jobs": committed rows, in primary-key order
    messages,     \* table "messages": committed rows, in primary-key order
    registry,     \* websocket_manager.active_connections
    chan,         \* per channel: "new", "open", "closed" (peer gone), "gone"
    inbox,        \* per channel: the broadcast events its client has received
    task,         \* per job: the locals and position of its worker task
    jlog,         \* per job: every committed state of its row, in order
    pub,          \* every event handed to broadcast, in order, with its job
    todo,         \* the user messages the clients have yet to post
    watch,        \* the channels registered when the listener's broadcast began
    bus,          \* Redis channel "job_updates": the messages not yet listened to
    chart,        \* per enqueued chart job: the position of its RQ worker
    quota,        \* the jobs that may still be posted to /jobs
    ping,         \* per channel: what its endpoint is doing
    resp,         \* the response to the latest create_message request
    cache,        \* the rows of table splunk_query_results
    calls,        \* the executions of execute_splunk_query
    convs,        \* table "conversations": the ids of its rows
    removed,      \* the ids of the rows deleted from table "messages"
    event_bus,    \* core.event_bus.event_bus: subscribers, lock, calls made
    run           \* the state of a run of conversation_graph

vars ==
    <<settings, jobs, messages, registry, chan, inbox, task, jlog, pub, todo,
      watch, bus, chart, quota, ping, resp, cache, calls, convs, removed,
      event_bus, run>>

\* The variables of the request handlers and of the event bus.
api == <<resp, cache, calls, convs, removed, event_bus, run>>

\* The variables of the chart worker, of the job-update listener and of the
\* endpoints' own sends.
aux == <<watch, bus, chart, quota, ping, api>>

\* ------------------------------------------------------------------- rows
\* Job.id is an integer primary key, Job.job_id the text of a uuid4.
PkOf(i) == <<"int", i>>
UuidOf(i) == <<"str", i>>

\* JobBase defaults: status queued, progress 0, result and error None
\* (an optional value is a sequence of length 0 or 1).
NewJob(i, text) ==
    [id |-> PkOf(i), job_id |-> UuidOf(i), type |-> "assistant_response",
     conversation_id |-> 1, user_message |-> text,
     status |-> "queued", progress |-> 0, result |-> <<>>, error |-> <<>>]

Snapshot(row) ==
    [status |-> row.status, progress |-> row.progress,
     result |-> row.result, error |-> row.error]

NewMessage(id, content, role, blocks) ==
    [id |-> id, content |-> content, role |-> role, conversation_id |-> 1,
     blocks |-> blocks]

\* select(Job).where(Job.job_id == job_id).first(): row index, 0 for None
SelectJob(rows, job_id) ==
    IF \E i \in DOMAIN rows : rows[i].job_id = job_id
    THEN CHOOSE i \in DOMAIN rows : rows[i].job_id = job_id
    ELSE 0

\* session.get(Job, key): lookup by primary key, 0 for None
SessionGet(rows, key) ==
    IF \E i \in DOMAIN rows : rows[i].id = key
    THEN CHOOSE i \in DOMAIN rows : rows[i].id = key
    ELSE 0

\* ----------------------------------------------------------------- events
Event(type, mid, token, content, blocks, job_id, error) ==
    [type |-> type, message_id |-> mid, token |-> token, content |-> content,
     blocks |-> blocks, job_id |-> job_id, error |-> error]

\* WebSocketManager.send_stream_start
send_stream_start(mid) == Event("message.stream.start", mid, <<>>, <<>>, <<>>, <<>>, "")

\* WebSocketManager.stream_token
stream_token(mid, token) == Event("message.stream.token", mid, token, <<>>, <<>>, <<>>, "")

\* WebSocketManager.send_stream_end
send_stream_end(mid, blocks) == Event("message.stream.end", mid, <<>>, <<>>, blocks, <<>>, "")

\* {"type": "message.new", "data": MessageRead(...).model_dump()}
MessageNew(row) == Event("message.new", row.id, <<>>, row.content, row.blocks, <<>>, "")

\* {"type": "job.update", "data": {"job_id", "status": "failed", "error"}}
JobUpdateFailed(job_id, error) == Event("job.update", 0, <<>>, <<>>, <<>>, job_id, error)

\* ------------------------------------------------------------ worker task
AwaitLabels ==
    {"queued", "await_gen", "await_send", "sent", "await_token", "await_fallback", "done",
     "listening"}

\* The locals of a broadcast; got notes the watched channels its sends have
\* reached.
NoBroadcast ==
    [event |-> JobUpdateFailed(<<>>, ""), used |-> 0, pos |-> 0, k |-> 0, cur |-> 0,
     ok |-> TRUE, disconnected |-> <<>>, got |-> {}]

\* What is kept of a task's latest broadcast once it is over: whether it
\* raised, and of the watched channels still registered when it ended,
\* those it never sent to (missed) and those it did not deliver to
\* (unserved); the channels whose send failed and that are registered
\* still (kept), the channels delivered to that it removed (dropped).
NoOutcome ==
    [raised |-> FALSE, missed |-> {}, unserved |-> {}, kept |-> {}, dropped |-> {}]

Outcome(w, reg, raised) ==
    LET failed == {w.t.bc.disconnected[i].conn : i \in DOMAIN w.t.bc.disconnected}
        both == w.watch \cap RegisteredSet(reg)
    IN [raised |-> raised,
        missed |-> both \ (w.t.bc.got \cup failed),
        unserved |-> both \ w.t.bc.got,
        kept |-> failed \cap both,
        dropped |-> (w.t.bc.got \cap RegisteredSet(w.reg)) \ RegisteredSet(reg)]

\* loop.create_task(generate_assistant_response_async(job_id)): a task that
\* has not run yet.  chunks, adapter and gen record what the adapters did,
\* stream_mid the id of the stream's placeholder message.
NewTask(i) ==
    [pc |-> "queued", job_id |-> UuidOf(i), row |-> 0, mid |-> 0, acc |-> <<>>,
     content |-> <<>>, blocks |-> <<>>, exc |-> "", raised |-> "",
     cont |-> "", bc |-> NoBroadcast,
     chunks |-> <<>>, adapter |-> "idle", gen |-> "idle", stream_mid |-> 0,
     last |-> NoOutcome]

\* session.add(job); session.commit() for the row with index i
PersistRow(w, i, fields) ==
    LET row == [f \in DOMAIN w.jobs[i] |->
                   IF f \in DOMAIN fields THEN fields[f] ELSE w.jobs[i][f]]
    IN [w EXCEPT !.jobs[i] = row, !.jlog[i] = Append(@, Snapshot(row))]

\* The same for the worker's own job object.
Persist(w, fields) == PersistRow(w, w.t.row, fields)

\* await websocket_manager.broadcast(event), entered from the place cont
StartBroadcast(w, event, cont) ==
    [w EXCEPT !.t.pc = "bc_begin", !.t.cont = cont,
              !.t.bc = [NoBroadcast EXCEPT !.event = event],
              !.pub = Append(@, [job |-> w.t.job_id, ev |-> event])]

\* The mock generator's reply (conversations._generate_assistant_response).
MockResponse == [content |-> <<"w">>, blocks |-> <<>>]

\* generate_assistant_response_async up to the choice of generator
DoStart(w) ==
    LET i == SelectJob(w.jobs, w.t.job_id)
    IN IF i = 0 THEN [w EXCEPT !.t.pc = "done"]
       ELSE LET w0 == [w EXCEPT !.t.row = i]
                w1 == Persist(w0, [status |-> "started", progress |-> 0])
            IN IF w.jobs[i].user_message = ""
               THEN [w1 EXCEPT !.t.exc = "ValueError", !.t.pc = "handler"]
               ELSE LET w2 == Persist(w1, [progress |-> 50, status |-> "progress"])
                    IN IF settings.mock
                       THEN [w2 EXCEPT !.t.content = MockResponse.content,
                                       !.t.blocks = MockResponse.blocks,
                                       !.t.pc = "emit"]
                       ELSE IF settings.streaming /\ settings.llm
                       THEN [w2 EXCEPT !.t.pc = "stream_begin"]
                       ELSE [w2 EXCEPT !.t.pc = "await_gen"]

\* generate_assistant_response_async: store the message, complete the job,
\* broadcast message.new
DoEmit(w) ==
    LET id == Len(w.messages) + 1
        msg == NewMessage(id, w.t.content, "assistant", w.t.blocks)
        w1 == [w EXCEPT !.messages = Append(@, msg), !.t.mid = id]
        w2 == Persist(w1, [status |-> "completed", progress |-> 100,
                           result |-> <<[message_id |-> id, content |-> w.t.content,
                                         blocks |-> w.t.blocks]>>])
    IN StartBroadcast(w2, MessageNew(msg), "worker_msg")

\* generate_assistant_response_async: except Exception as e
DoHandler(w) ==
    LET w1 == Persist(w, [status |-> "failed", error |-> <<w.t.exc>>])
    IN StartBroadcast(w1, JobUpdateFailed(w.t.job_id, w.t.exc), "handler")

\* _generate_and_stream_response: placeholder message and stream.start
DoStreamBegin(w) ==
    LET id == Len(w.messages) + 1
        w1 == [w EXCEPT !.messages = Append(@, NewMessage(id, <<>>, "assistant", <<>>)),
                        !.t.mid = id, !.t.stream_mid = id, !.t.acc = <<>>]
    IN StartBroadcast(w1, send_stream_start(id), "stream_start")

\* -------------------------------------------------------------- broadcast
\* WebSocketManager.broadcast up to the first send: nothing is sent when no
\* connection is registered, else the dict iterator notes the dict's size.
BroadcastBegin(w) ==
    IF TotalConnections(w.reg) = 0
    THEN [w EXCEPT !.t.last = Outcome(w, w.reg, FALSE), !.t.bc = NoBroadcast,
                   !.t.pc = "bc_ret"]
    ELSE [w EXCEPT !.t.bc.used = DictLen(w.reg), !.t.pc = "bc_adv"]

\* The two for loops of broadcast, from the iterators' positions to the next
\* connection: the list iterator yields conns[k+1] while there is one; the
\* dict iterator raises RuntimeError when the dict's size has changed and
\* else moves to the next live entry.
RECURSIVE NextSend(_, _)
NextSend(reg, bc) ==
    IF bc.pos > 0 /\ bc.k < Len(reg[bc.pos].conns)
    THEN [kind |-> "send",
          bc |-> [bc EXCEPT !.k = bc.k + 1, !.cur = reg[bc.pos].conns[bc.k + 1]]]
    ELSE IF DictLen(reg) # bc.used
    THEN [kind |-> "raise", bc |-> bc]
    ELSE LET later == {p \in LiveEntries(reg) : p > bc.pos}
         IN IF later = {}
            THEN [kind |-> "exhausted", bc |-> bc]
            ELSE NextSend(reg, [bc EXCEPT !.pos = Min(later), !.k = 0])

\* for user_id, connection in disconnected: self.disconnect(connection, user_id)
RECURSIVE Cleanup(_, _)
Cleanup(reg, disconnected) ==
    IF disconnected = <<>> THEN [reg |-> reg, raised |-> FALSE]
    ELSE LET d == Disconnect(reg, Head(disconnected).conn, Head(disconnected).user)
         IN IF d.raised THEN d ELSE Cleanup(d.reg, Tail(disconnected))

\* broadcast after a send: on to the next send, or out of the loops
BroadcastAdvance(w) ==
    LET n == NextSend(w.reg, w.t.bc)
    IN CASE n.kind = "send" -> [w EXCEPT !.t.bc = n.bc, !.t.pc = "await_send"]
         [] n.kind = "raise" ->
              [w EXCEPT !.t.last = Outcome(w, w.reg, TRUE), !.t.bc = NoBroadcast,
                        !.t.raised = "RuntimeError", !.t.pc = "bc_raise"]
         [] OTHER ->
              LET c == Cleanup(w.reg, w.t.bc.disconnected)
              IN IF c.raised
                 THEN [w EXCEPT !.reg = c.reg, !.t.last = Outcome(w, c.reg, TRUE),
                                !.t.bc = NoBroadcast,
                                !.t.raised = "ValueError", !.t.pc = "bc_raise"]
                 ELSE [w EXCEPT !.reg = c.reg, !.t.last = Outcome(w, c.reg, FALSE),
                                !.t.bc = NoBroadcast, !.t.pc = "bc_ret"]

InStream(cont) == cont \in {"stream_start", "token", "stream_end", "stream_msg"}

\* The code after an await of broadcast that returned.
AfterReturn(w) ==
    CASE w.t.cont \in {"stream_start", "token"} -> [w EXCEPT !.t.pc = "await_token"]
      [] w.t.cont = "stream_end" ->
           StartBroadcast(w, MessageNew(w.messages[w.t.mid]), "stream_msg")
      [] w.t.cont = "listener" -> [w EXCEPT !.t.pc = "listening"]
      [] OTHER -> [w EXCEPT !.t.pc = "done"]

\* The code an exception raised by broadcast reaches.
AfterRaise(w) ==
    CASE InStream(w.t.cont) ->
           [w EXCEPT !.t.exc = w.t.raised, !.t.pc = "await_fallback"]
      [] w.t.cont = "fb_msg" ->
           StartBroadcast(w, JobUpdateFailed(w.t.job_id, w.t.exc), "fb_fail")
      [] w.t.cont \in {"fb_fail", "worker_msg"} ->
           [w EXCEPT !.t.exc = w.t.raised, !.t.pc = "handler"]
      [] w.t.cont = "listener" -> [w EXCEPT !.t.pc = "listening"]
      [] OTHER -> [w EXCEPT !.t.pc = "done"]

\* A task runs until its next await.
RECURSIVE Run(_)
Run(w) ==
    CASE w.t.pc \in AwaitLabels -> w
      [] w.t.pc = "start" -> Run(DoStart(w))
      [] w.t.pc = "emit" -> Run(DoEmit(w))
      [] w.t.pc = "handler" -> Run(DoHandler(w))
      [] w.t.pc = "stream_begin" -> Run(DoStreamBegin(w))
      [] w.t.pc = "bc_begin" -> Run(BroadcastBegin(w))
      [] w.t.pc = "bc_adv" -> Run(BroadcastAdvance(w))
      [] w.t.pc = "bc_ret" -> Run(AfterReturn(w))
      [] w.t.pc = "bc_raise" -> Run(AfterRaise(w))

World(j) ==
    [jobs |-> jobs, messages |-> messages, reg |-> registry, t |-> task[j],
     jlog |-> jlog, pub |-> pub, watch |-> watch]

Resume(j, w) ==
    LET r == Run(w)
    IN /\ jobs' = r.jobs
       /\ messages' = r.messages
       /\ registry' = r.reg
       /\ task' = [task EXCEPT ![j] = r.t]
       /\ jlog' = r.jlog
       /\ pub' = r.pub

\* ---------------------------------------------------------------- actions
\* One configuration for each way the worker can take: the mock generator,
\* the stream driver, a whole response with and without the LLM.
\* ------------------------------------------------------------ conversation graph
\* What classify_intent finds in the user message: a Splunk keyword, else a
\* chart keyword, else a code keyword, else none of them.
Keywords == {"splunk", "chart", "code", "none"}

\* classify_intent: state["intent"]
classify_intent(keyword) ==
    CASE keyword = "splunk" -> "splunk_query"
      [] keyword = "chart" -> "chart_request"
      [] keyword = "code" -> "code_request"
      [] OTHER -> "general_chat"

\* route_based_on_intent: the node that follows classify_intent
route_based_on_intent(mock, llm, intent) ==
    IF mock THEN "generate_mock_response"
    ELSE IF ~llm THEN "generate_mock_response"
    ELSE IF intent = "splunk_query" THEN "generate_splunk_query"
    ELSE "generate_llm_response"

\* route_after_splunk: the node that follows execute_splunk_query
route_after_splunk(response_text) ==
    IF response_text = <<>> THEN "generate_llm_response" ELSE "format_response_blocks"

\* The SPL text generate_splunk_query ends with: the LLM's, or the template
\* "index=* ... | head 100" when the LLM raised or answered too briefly.
SplQueries == { <<"w", "s", "w">>, <<"w", "s", "w", "s", "w">>, <<"w">> }

\* execute_splunk_query: the query block
QueryBlock(query) == [type |-> "query", language |-> "spl", code |-> query]

HasQueryBlock(blocks) == \E i \in DOMAIN blocks : blocks[i].type = "query"

\* format_response_blocks: blocks without a type are left out
format_response_blocks(blocks) ==
    SelectSeq(blocks, LAMBDA b : "type" \in DOMAIN b)

\* process_conversation: initial_state, for a run not yet started
NoRun ==
    [stage |-> "idle", path |-> <<>>, keyword |-> "none", mock |-> FALSE, llm |-> FALSE,
     intent |-> "", splunk_query |-> <<>>, response_text |-> <<>>, blocks |-> <<>>,
     error |-> <<>>]

\* ------------------------------------------------------------ event bus
Topics == {"T", "U"}

\* What a subscribed callback does when awaited: "plain" suspends and then
\* returns or raises; "publisher" awaits event_bus.publish on its own
\* topic; "subscriber" awaits event_bus.subscribe of a plain callback.
Handlers == {"plain", "publisher", "subscriber"}

\* EventBus.__init__: no subscriber, the lock free.  owner is the call that
\* holds _lock (0 when free), waiters the calls queued on it, calls every
\* call of publish or subscribe with its position, log the starts and ends
\* of the callbacks awaited.
NoBus ==
    [subs |-> [t \in Topics |-> <<>>], owner |-> 0, waiters |-> <<>>,
     calls |-> <<>>, log |-> <<>>]

BusCall(kind, topic, callback, by) ==
    [kind |-> kind, topic |-> topic, callback |-> callback, by |-> by,
     pc |-> "called", idx |-> 0]

WakeUp_Last(waiters) == waiters[Len(waiters)]

\* asyncio.Lock.release: the waiter that has waited longest is woken.
WakeUp(waiters) == Head(waiters)

\* asyncio.Lock.acquire by call k: taken at once when the lock is free and
\* nobody waits, else k joins the waiters.
TryAcquire(b, k) ==
    IF b.owner = 0 /\ b.waiters = <<>>
    THEN [b |-> [b EXCEPT !.owner = k], got |-> TRUE]
    ELSE [b |-> [b EXCEPT !.waiters = Append(@, k), !.calls[k].pc = "waiting"],
          got |-> FALSE]

\* async with self._lock ends for call k: the lock goes to the woken waiter.
Release(b, k) ==
    LET b1 == [b EXCEPT !.calls[k].pc = "done"]
    IN IF b.waiters = <<>> THEN [b1 EXCEPT !.owner = 0]
       ELSE LET n == WakeUp(b.waiters)
            IN [b1 EXCEPT !.owner = n,
                          !.waiters = SelectSeq(@, LAMBDA x : x # n),
                          !.calls[n].pc = "granted"]

\* publish, call k, awaits the callback at position i of the topic's list;
\* a callback that calls the bus makes its call while the lock is held.
Invoke(b, k, i) ==
    LET topic == b.calls[k].topic
        list == b.subs[topic]
    IN IF i > Len(list) THEN Release(b, k)
       ELSE LET b1 == [b EXCEPT !.calls[k].pc = "in_handler", !.calls[k].idx = i,
                                !.log = Append(@, [ev |-> "start", call |-> k,
                                                   topic |-> topic, idx |-> i])]
                n == Len(b.calls) + 1
                inner == IF list[i] = "publisher"
                         THEN BusCall("publish", topic, "", k)
                         ELSE BusCall("subscribe", topic, "plain", k)
            IN IF list[i] = "plain" THEN b1
               ELSE TryAcquire([b1 EXCEPT !.calls = Append(@, inner)], n).b

\* The body of subscribe or publish, call k, once it holds the lock.
BusBody(b, k) ==
    IF b.calls[k].kind = "subscribe"
    THEN Release([b EXCEPT !.subs[b.calls[k].topic] = Append(@, b.calls[k].callback)], k)
    ELSE Invoke(b, k, 1)

\* A call of subscribe or publish up to its first suspension.
BusEnter(b, call) ==
    LET k == Len(b.calls) + 1
        r == TryAcquire([b EXCEPT !.calls = Append(@, call)], k)
    IN IF r.got THEN BusBody(r.b, k) ELSE r.b

\* The rows table conversations starts with.
Conversations == {1}

\* The roles a request may carry (MessageCreate.role is any string).
Roles == {"user", "assistant"}

\* POST /conversations/{conversation_id}/messages with body {content, role}
Request(conversation_id, role, content) ==
    [conversation_id |-> conversation_id, role |-> role, content |-> content]

\* What create_message answers: the status code, the message returned and
\* the job id returned (<<>> for null).
NoResponse == [status |-> 0, message |-> <<>>, job_id |-> <<>>]

NeedsJob_AnyRole(role) == TRUE

\* create_message: if message.role == "user"
NeedsJob(role) == role = "user"

Configs ==
    { [mock |-> TRUE, streaming |-> TRUE, llm |-> TRUE],
      [mock |-> FALSE, streaming |-> TRUE, llm |-> TRUE],
      [mock |-> FALSE, streaming |-> FALSE, llm |-> TRUE],
      [mock |-> FALSE, streaming |-> TRUE, llm |-> FALSE] }

Init ==
    /\ settings \in Configs
    /\ jobs = <<>>
    /\ messages = <<>>
    /\ registry = <<>>
    /\ chan = [c \in Channels |-> "new"]
    /\ inbox = [c \in Channels |-> <<>>]
    /\ task = <<>>
    /\ jlog = <<>>
    /\ pub = <<>>
    /\ todo \in {<<Request(1, "user", text)>> : text \in UserTexts}
    /\ watch = {}
    /\ bus = <<>>
    /\ chart = <<>>
    /\ quota = 0
    /\ ping = [c \in Channels |-> "idle"]
    /\ resp = NoResponse
    /\ cache = <<>>
    /\ calls = <<>>
    /\ convs = Conversations
    /\ removed = {}
    /\ event_bus = NoBus
    /\ run = NoRun

\* create_message: 404 when the conversation is missing; otherwise the
\* message is stored and, for a user message, a queued job is stored and
\* the worker task is created.
create_message ==
    /\ todo # <<>>
    /\ todo' = Tail(todo)
    /\ LET req == Head(todo)
           i == Len(jobs) + 1
           message == [NewMessage(Len(messages) + 1, req.content, req.role, <<>>)
                          EXCEPT !.conversation_id = req.conversation_id]
           job == [NewJob(i, req.content) EXCEPT !.conversation_id = req.conversation_id]
       IN IF req.conversation_id \notin convs
          THEN /\ resp' = [status |-> 404, message |-> <<>>, job_id |-> <<>>]
               /\ UNCHANGED <<messages, jobs, jlog, task>>
          ELSE /\ messages' = Append(messages, message)
               /\ IF NeedsJob(req.role)
                  THEN /\ jobs' = Append(jobs, job)
                       /\ jlog' = Append(jlog, <<Snapshot(job)>>)
                       /\ task' = Append(task, NewTask(i))
                       /\ resp' = [status |-> 200, message |-> <<message>>,
                                   job_id |-> <<job.job_id>>]
                  ELSE /\ resp' = [status |-> 200, message |-> <<message>>, job_id |-> <<>>]
                       /\ UNCHANGED <<jobs, jlog, task>>
    /\ UNCHANGED <<watch, bus, chart, quota, ping, cache, calls, convs, removed, event_bus, run,
                   settings, registry, chan, inbox, pub>>

\* websocket_endpoint: accept, then websocket_manager.connect.  The
\* connections of one user are numbered in the order they are made.
Attach(c) ==
    /\ chan[c] = "new"
    /\ \A b \in Channels : (b < c /\ UserOf(b) = UserOf(c)) => chan[b] # "new"
    /\ chan' = [chan EXCEPT ![c] = "open"]
    /\ registry' = Connect(registry, c, UserOf(c))
    /\ UNCHANGED <<aux, todo, settings, jobs, messages, inbox, task, jlog, pub>>

\* The peer goes away (and with it what it had received); the endpoint has
\* not noticed yet.
ClientClose(c) ==
    /\ chan[c] = "open"
    /\ chan' = [chan EXCEPT ![c] = "closed"]
    /\ inbox' = [inbox EXCEPT ![c] = <<>>]
    /\ UNCHANGED <<aux, todo, settings, jobs, messages, registry, task, jlog, pub>>

\* websocket_endpoint: receive raises WebSocketDisconnect, the handler
\* calls websocket_manager.disconnect (which may itself raise).
EndpointDisconnect(c) ==
    /\ chan[c] = "closed"
    /\ ping[c] = "idle"
    /\ chan' = [chan EXCEPT ![c] = "gone"]
    /\ registry' = Disconnect(registry, c, UserOf(c)).reg
    /\ UNCHANGED <<aux, todo, settings, jobs, messages, inbox, task, jlog, pub>>

\* The event loop runs the worker task for the first time.
WorkerStart(j) ==
    /\ task[j].pc = "queued"
    /\ Resume(j, [World(j) EXCEPT !.t.pc = "start"])
    /\ UNCHANGED <<aux, todo, settings, chan, inbox>>

\* await connection.send_json(message) finishes: the payload has been
\* delivered, or the send has failed.  The broadcasting task is made ready
\* again; the event loop may run other ready tasks before it.
SendCompletes(j) ==
    /\ task[j].pc = "await_send"
    /\ LET c == task[j].bc.cur
           ok == chan[c] = "open"
       IN /\ inbox' = IF ok THEN [inbox EXCEPT ![c] = Append(@, task[j].bc.event)]
                      ELSE inbox
          /\ task' = [task EXCEPT ![j].pc = "sent", ![j].bc.ok = ok,
                                  ![j].bc.got = IF ok /\ c \in watch THEN @ \cup {c} ELSE @]
    /\ UNCHANGED <<aux, todo, settings, jobs, messages, registry, chan, jlog, pub>>

\* broadcast, the statements after the send: count it, or note the
\* connection as disconnected under the user id of the loop
AfterSend(w) ==
    IF w.t.bc.ok
    THEN [w EXCEPT !.t.pc = "bc_adv"]
    ELSE [w EXCEPT !.t.pc = "bc_adv",
                   !.t.bc.disconnected =
                       Append(@, [user |-> w.reg[w.t.bc.pos].user, conn |-> w.t.bc.cur])]

\* The broadcasting task runs again after its send.
BroadcastResumes(j) ==
    /\ task[j].pc = "sent"
    /\ Resume(j, AfterSend(World(j)))
    /\ UNCHANGED <<aux, todo, settings, chan, inbox>>

\* The text the LLM returns when asked for a whole response.
Responses == { <<"s", "f", "n", "f", "w">> }

\* What the LLM does when asked for a whole response: a text, or an error.
GenOutcomes == [kind : {"ok"}, text : Responses] \cup [kind : {"raise"}, text : {<<>>}]

\* The text process_conversation reports when the graph run raised.
GraphErrorContent == <<"w", "s", "w">>

\* langgraph_service.process_conversation: never raises.  Routed to the mock
\* generator when the LLM is unavailable; else generate_llm_response, which
\* on an LLM error records it and returns generate_mock_response(state)
\* without awaiting it: the graph run fails on that value and
\* process_conversation's own handler reports the failure as the content.
process_conversation(llm, o) ==
    IF ~llm
    THEN [content |-> MockResponse.content, blocks |-> MockResponse.blocks, error |-> <<>>]
    ELSE IF o.kind = "ok"
    THEN [content |-> extract_blocks_from_response(o.text).text,
          blocks |-> extract_blocks_from_response(o.text).blocks, error |-> <<>>]
    ELSE [content |-> GraphErrorContent, blocks |-> <<>>, error |-> <<"graph">>]

GenKind(llm, o) == IF ~llm THEN "mock" ELSE o.kind

\* generate_assistant_response_async: process_conversation returns
GenReturns(j, o) ==
    /\ task[j].pc = "await_gen"
    /\ LET r == process_conversation(settings.llm, o)
       IN Resume(j, [World(j) EXCEPT !.t.content = r.content, !.t.blocks = r.blocks,
                                     !.t.gen = GenKind(settings.llm, o),
                                     !.t.pc = "emit"])
    /\ UNCHANGED <<aux, todo, settings, chan, inbox>>

\* _generate_and_stream_response: the loop body for one chunk
DoToken(w, token) ==
    LET acc == w.t.acc \o token
        w1 == [w EXCEPT !.t.acc = acc, !.messages[w.t.mid].content = acc]
    IN StartBroadcast(w1, stream_token(w.t.mid, token), "token")

\* llm_service.generate_response_stream yields a chunk
TokenArrives(j, token) ==
    /\ task[j].pc = "await_token"
    /\ Len(task[j].chunks) < MaxChunks
    /\ Resume(j, DoToken([World(j) EXCEPT !.t.chunks = Append(@, token),
                                          !.t.adapter = "streaming"], token))
    /\ UNCHANGED <<aux, todo, settings, chan, inbox>>

\* _generate_and_stream_response after the loop: final content and blocks,
\* the job looked up with session.get(Job, job_id), commit, stream.end
DoFinalize(w) ==
    LET r == extract_blocks_from_response(w.t.acc)
        w1 == [w EXCEPT !.messages[w.t.mid].content = r.text,
                        !.messages[w.t.mid].blocks =
                            IF r.blocks # <<>> THEN r.blocks ELSE @,
                        !.t.content = r.text, !.t.blocks = r.blocks]
        g == SessionGet(w.jobs, w.t.job_id)
        w2 == IF g # 0
              THEN PersistRow(w1, g, [status |-> "completed", progress |-> 100,
                                      result |-> <<[message_id |-> w.t.mid,
                                                    content |-> r.text,
                                                    blocks |-> r.blocks]>>])
              ELSE w1
    IN StartBroadcast(w2, send_stream_end(w.t.mid, r.blocks), "stream_end")

\* llm_service.generate_response_stream is exhausted
StreamEnds(j) ==
    /\ task[j].pc = "await_token"
    /\ Resume(j, DoFinalize([World(j) EXCEPT !.t.adapter = "ended"]))
    /\ UNCHANGED <<aux, todo, settings, chan, inbox>>

\* llm_service.generate_response_stream raises
StreamRaises(j) ==
    /\ task[j].pc = "await_token"
    /\ task' = [task EXCEPT ![j].adapter = "raised", ![j].exc = "adapter",
                            ![j].pc = "await_fallback"]
    /\ UNCHANGED <<aux, todo, settings, jobs, messages, registry, chan, inbox, jlog, pub>>

\* DoFallback with the fallback's content written into the message the
\* task already holds (the stream's placeholder) instead of a new row.
DoFallback_ReusePlaceholder(w, r) ==
    LET msg == NewMessage(w.t.mid, r.content, "assistant", r.blocks)
    IN StartBroadcast([w EXCEPT !.messages[w.t.mid] = msg], MessageNew(msg), "fb_msg")

\* _generate_and_stream_response, except branch: a message is made from the
\* whole response and broadcast
DoFallback(w, r) ==
    LET id == Len(w.messages) + 1
        msg == NewMessage(id, r.content, "assistant", r.blocks)
    IN StartBroadcast([w EXCEPT !.messages = Append(@, msg), !.t.mid = id],
                      MessageNew(msg), "fb_msg")

\* the fallback's process_conversation returns
FallbackReturns(j, o) ==
    /\ task[j].pc = "await_fallback"
    /\ Resume(j, DoFallback([World(j) EXCEPT !.t.gen = GenKind(settings.llm, o)],
                            process_conversation(settings.llm, o)))
    /\ UNCHANGED <<aux, todo, settings, chan, inbox>>

\* ------------------------------------------- chart worker, update listener
ChartSteps == 10

\* The job types and the "range" parameters posted to /jobs.
JobTypes == {"chart", "report"}
Ranges == {0, 30}

\* chart_worker._broadcast_job_update: the message published to Redis
ChartUpdate(job_id, status, progress, result) ==
    [type |-> "job.update", message_id |-> 0, job_id |-> job_id, status |-> status,
     progress |-> progress, result |-> result]

\* The result of generate_chart_data: one data point per day of the range.
ChartResult(range_days) == <<[type |-> "chart", points |-> range_days]>>

\* POST /jobs, JobService.create_job: the row is committed, then a chart job
\* is enqueued in RQ and any other type raises ValueError.
create_job(type, range_days) ==
    /\ quota > 0
    /\ quota' = quota - 1
    /\ LET i == Len(jobs) + 1
           row == [NewJob(i, "") EXCEPT !.type = type]
       IN /\ jobs' = Append(jobs, row)
          /\ jlog' = Append(jlog, <<Snapshot(row)>>)
          /\ chart' = IF type = "chart"
                       THEN Append(chart, [job_id |-> UuidOf(i), row |-> 0, i |-> 0,
                                           range_days |-> range_days, pc |-> "queued"])
                       ELSE chart
    /\ UNCHANGED <<api, settings, messages, registry, chan, inbox, task, pub, todo, watch, bus, ping>>

ChartWorld == [jobs |-> jobs, jlog |-> jlog]

\* generate_chart_data up to the first progress step: STARTED is committed
\* and published.
ChartStart(k) ==
    /\ chart[k].pc = "queued"
    /\ LET i == SelectJob(jobs, chart[k].job_id)
       IN IF i = 0
          THEN /\ chart' = [chart EXCEPT ![k].pc = "done"]
               /\ UNCHANGED <<jobs, jlog, bus>>
          ELSE LET w == PersistRow(ChartWorld, i, [status |-> "started", progress |-> 0])
               IN /\ jobs' = w.jobs
                  /\ jlog' = w.jlog
                  /\ bus' = Append(bus, ChartUpdate(chart[k].job_id, "started", 0, <<>>))
                  /\ chart' = [chart EXCEPT ![k].pc = "loop", ![k].row = i]
    /\ UNCHANGED <<api, settings, messages, registry, chan, inbox, task, pub, todo, watch, quota, ping>>

\* int((i / steps) * 100)
StepProgress(i) == (i * 100) \div ChartSteps

\* generate_chart_data: one pass of the progress loop
ChartStep(k) ==
    /\ chart[k].pc = "loop"
    /\ chart[k].i < ChartSteps
    /\ LET i == chart[k].i + 1
           w == PersistRow(ChartWorld, chart[k].row,
                           [progress |-> StepProgress(i), status |-> "progress"])
       IN /\ jobs' = w.jobs
          /\ jlog' = w.jlog
          /\ bus' = Append(bus, ChartUpdate(chart[k].job_id, "progress",
                                            StepProgress(i), <<>>))
          /\ chart' = [chart EXCEPT ![k].i = i]
    /\ UNCHANGED <<api, settings, messages, registry, chan, inbox, task, pub, todo, watch, quota, ping>>

ChartFinish_NoStatus(k) ==
    /\ chart[k].pc = "loop"
    /\ chart[k].i = ChartSteps
    /\ LET result == ChartResult(chart[k].range_days)
           w == PersistRow(ChartWorld, chart[k].row,
                           [progress |-> 100, result |-> result])
       IN /\ jobs' = w.jobs
          /\ jlog' = w.jlog
          /\ bus' = Append(bus, ChartUpdate(chart[k].job_id, "completed", 100, result))
          /\ chart' = [chart EXCEPT ![k].pc = "done"]
    /\ UNCHANGED <<api, settings, messages, registry, chan, inbox, task, pub, todo, watch, quota, ping>>

\* generate_chart_data after the loop: COMPLETED with the result
ChartFinish(k) ==
    /\ chart[k].pc = "loop"
    /\ chart[k].i = ChartSteps
    /\ LET result == ChartResult(chart[k].range_days)
           w == PersistRow(ChartWorld, chart[k].row,
                           [status |-> "completed", progress |-> 100, result |-> result])
       IN /\ jobs' = w.jobs
          /\ jlog' = w.jlog
          /\ bus' = Append(bus, ChartUpdate(chart[k].job_id, "completed", 100, result))
          /\ chart' = [chart EXCEPT ![k].pc = "done"]
    /\ UNCHANGED <<api, settings, messages, registry, chan, inbox, task, pub, todo, watch, quota, ping>>

\* job_listener.listen_for_job_updates, waiting for a message
ListenerTask == [NewTask(0) EXCEPT !.job_id = <<>>, !.pc = "listening"]

\* listen_for_job_updates: a message arrives and is handed to broadcast;
\* an exception of the broadcast is caught and printed.
ListenerForwards(j) ==
    /\ task[j].pc = "listening"
    /\ bus # <<>>
    /\ bus' = Tail(bus)
    /\ watch' = RegisteredSet(registry)
    /\ Resume(j, StartBroadcast([World(j) EXCEPT !.watch = RegisteredSet(registry)],
                                Head(bus), "listener"))
    /\ UNCHANGED <<api, settings, chan, inbox, todo, chart, quota, ping>>

Next ==
    \/ create_message
    \/ \E c \in Channels : Attach(c)
    \/ \E c \in Channels : ClientClose(c)
    \/ \E c \in Channels : EndpointDisconnect(c)
    \/ \E j \in DOMAIN task : WorkerStart(j)
    \/ \E j \in DOMAIN task : SendCompletes(j)
    \/ \E j \in DOMAIN task : BroadcastResumes(j)
    \/ \E j \in DOMAIN task, o \in GenOutcomes : GenReturns(j, o)
    \/ \E j \in DOMAIN task, token \in Tokens : TokenArrives(j, token)
    \/ \E j \in DOMAIN task : StreamEnds(j)
    \/ \E j \in DOMAIN task : StreamRaises(j)
    \/ \E j \in DOMAIN task, o \in GenOutcomes : FallbackReturns(j, o)

Spec == Init /\ [][Next]_vars

\* websocket_endpoint: a text of the client is answered with an ack, a
\* receive that timed out with a ping; either is awaited by the endpoint.
EndpointSends(c, kind) ==
    /\ chan[c] = "open"
    /\ ping[c] = "idle"
    /\ ping' = [ping EXCEPT ![c] = kind]
    /\ UNCHANGED <<api, settings, jobs, messages, registry, chan, inbox, task, jlog, pub, todo,
                   watch, bus, chart, quota>>

\* websocket_endpoint: the endpoint's send is over.  A failed ping breaks
\* the loop and the endpoint returns; a failed ack reaches the handler that
\* calls websocket_manager.disconnect.
EndpointSent(c) ==
    /\ ping[c] \in {"ack", "ping"}
    /\ IF chan[c] = "open"
       THEN /\ ping' = [ping EXCEPT ![c] = "idle"]
            /\ UNCHANGED <<chan, registry>>
       ELSE IF ping[c] = "ping"
       THEN /\ ping' = [ping EXCEPT ![c] = "left"]
            /\ chan' = [chan EXCEPT ![c] = "gone"]
            /\ UNCHANGED registry
       ELSE /\ ping' = [ping EXCEPT ![c] = "left"]
            /\ chan' = [chan EXCEPT ![c] = "gone"]
            /\ registry' = Disconnect(registry, c, UserOf(c)).reg
    /\ UNCHANGED <<api, settings, jobs, messages, inbox, task, jlog, pub, todo,
                   watch, bus, chart, quota>>

\* websocket_endpoint: with authentication on, a token that does not decode
\* is answered by closing the accepted socket; connect is never called.
RejectToken(c) ==
    /\ chan[c] = "new"
    /\ chan' = [chan EXCEPT ![c] = "gone"]
    /\ ping' = [ping EXCEPT ![c] = "left"]
    /\ UNCHANGED <<api, settings, jobs, messages, registry, inbox, task, jlog, pub, todo,
                   watch, bus, chart, quota>>

\* The event loop cancels a worker task (at shutdown): CancelledError is
\* raised at the task's await, no except Exception clause catches it, the
\* session is closed and nothing is committed.
TaskCancelled(j) ==
    /\ task[j].pc \notin {"done", "cancelled"}
    /\ task' = [task EXCEPT ![j].pc = "cancelled", ![j].bc = NoBroadcast]
    /\ UNCHANGED <<api, settings, jobs, messages, registry, chan, inbox, jlog, pub, todo,
                   watch, bus, chart, quota, ping>>

\* The dispatcher with the endpoints' own sends and task cancellation.
NextEnv ==
    \/ Next
    \/ \E c \in Channels, kind \in {"ack", "ping"} : EndpointSends(c, kind)
    \/ \E c \in Channels : EndpointSent(c)
    \/ \E c \in Channels : RejectToken(c)
    \/ \E j \in DOMAIN task : TaskCancelled(j)

SpecEnv == Init /\ [][NextEnv]_vars

\* The chart pipeline: jobs posted to /jobs, the RQ worker, the listener that
\* forwards its updates to the sessions.
MaxChartJobs == 1

InitChart ==
    /\ settings \in {c \in Configs : c.mock}
    /\ jobs = <<>>
    /\ messages = <<>>
    /\ registry = <<>>
    /\ chan = [c \in Channels |-> "new"]
    /\ inbox = [c \in Channels |-> <<>>]
    /\ task = <<ListenerTask>>
    /\ jlog = <<>>
    /\ pub = <<>>
    /\ todo = <<>>
    /\ watch = {}
    /\ bus = <<>>
    /\ chart = <<>>
    /\ quota = MaxChartJobs
    /\ ping = [c \in Channels |-> "idle"]
    /\ resp = NoResponse
    /\ cache = <<>>
    /\ calls = <<>>
    /\ convs = Conversations
    /\ removed = {}
    /\ event_bus = NoBus
    /\ run = NoRun

NextChart ==
    \/ \E type \in JobTypes, range_days \in Ranges : create_job(type, range_days)
    \/ \E k \in DOMAIN chart : ChartStart(k)
    \/ \E k \in DOMAIN chart : ChartStep(k)
    \/ \E k \in DOMAIN chart : ChartFinish(k)
    \/ \E j \in DOMAIN task : ListenerForwards(j)
    \/ \E j \in DOMAIN task : SendCompletes(j)
    \/ \E j \in DOMAIN task : BroadcastResumes(j)
    \/ \E c \in Channels : Attach(c)
    \/ \E c \in Channels : ClientClose(c)
    \/ \E c \in Channels : EndpointDisconnect(c)

SpecChart == InitChart /\ [][NextChart]_vars

\* ------------------------------------------------------------- properties
Done(j) == task[j].pc = "done"

\* The events of one type handed to broadcast by the task of job j.
Published(j, type) ==
    SelectSeq(pub, LAMBDA p : p.job = task[j].job_id /\ p.ev.type = type)

\* The stream events channel c has received for message m.
StreamEvents(c, m) ==
    SelectSeq(inbox[c], LAMBDA e : e.message_id = m /\
        e.type \in {"message.stream.start", "message.stream.token", "message.stream.end"})

HasEvent(events, type) == \E k \in DOMAIN events : events[k].type = type

RECURSIVE Flatten(_)
Flatten(ss) == IF ss = <<>> THEN <<>> ELSE Head(ss) \o Flatten(Tail(ss))

\* The tokens published for the stream of job j, concatenated in order.
PublishedText(j) ==
    LET toks == SelectSeq(Published(j, "message.stream.token"),
                          LAMBDA p : p.ev.message_id = task[j].stream_mid)
    IN Flatten([k \in DOMAIN toks |-> toks[k].ev.token])

StreamedConfig == ~settings.mock /\ settings.streaming /\ settings.llm

WholeConfig == ~settings.mock /\ ~(settings.streaming /\ settings.llm)

\* The adapter raised after at least one chunk.
MidStreamFailure(j) == task[j].adapter = "raised" /\ task[j].chunks # <<>>

StatusEdges ==
    { <<"queued", "started">>, <<"started", "progress">>, <<"progress", "progress">>,
      <<"started", "completed">>, <<"started", "failed">>,
      <<"progress", "completed">>, <<"progress", "failed">> }

\* C1: the persisted statuses of every job form a prefix of queued, started,
\* progress*, (completed | failed); nothing is persisted for a job after a
\* completed or failed state.
C1_StatusProgression ==
    \A j \in DOMAIN jlog :
        /\ jlog[j][1].status = "queued"
        /\ \A k \in 1..(Len(jlog[j]) - 1) :
               <<jlog[j][k].status, jlog[j][k + 1].status>> \in StatusEdges

\* C2: a streamed job whose chunk sequence ended without error has, once its
\* task is over, status completed, progress 100 and a result.
C2_StreamedJobCompletes ==
    \A j \in DOMAIN task :
        (Done(j) /\ StreamedConfig /\ task[j].adapter = "ended") =>
            /\ jobs[j].status = "completed"
            /\ jobs[j].progress = 100
            /\ jobs[j].result # <<>>

\* C3: a session that has received both the stream.start and the stream.end
\* of a message has received, between the two, exactly the chunks the adapter
\* produced, in order, and no stream event of the message after the end.
C3_TokensInOrder ==
    \A j \in DOMAIN task : \A c \in Channels :
        LET m == task[j].stream_mid
            got == StreamEvents(c, m)
        IN (m # 0 /\ HasEvent(got, "message.stream.start")
                  /\ HasEvent(got, "message.stream.end")) =>
               got = <<send_stream_start(m)>>
                     \o [k \in DOMAIN task[j].chunks |-> stream_token(m, task[j].chunks[k])]
                     \o <<send_stream_end(m, got[Len(got)].blocks)>>

\* C4: once a stream has ended normally the stored content of its message is
\* the concatenation, in order, of the tokens published for it.
C4_ContentIsAccumulation ==
    \A j \in DOMAIN task :
        task[j].adapter = "ended" =>
            messages[task[j].stream_mid].content = PublishedText(j)

\* C5: after a mid-stream failure the job ends failed with the error text.
C5_MidStreamFailureFails ==
    \A j \in DOMAIN task :
        (Done(j) /\ MidStreamFailure(j)) =>
            jobs[j].status = "failed" /\ jobs[j].error # <<>>

\* C6: when the task is over, every stream.start it published has been
\* followed by exactly one stream.end for the same message.
C6_OneStreamEnd ==
    \A j \in DOMAIN task :
        (Done(j) /\ Published(j, "message.stream.start") # <<>>) =>
            /\ Len(Published(j, "message.stream.end")) = 1
            /\ Published(j, "message.stream.end")[1].ev.message_id = task[j].stream_mid

C8_OneFailedUpdate ==
    \A j \in DOMAIN task :
        (Done(j) /\ MidStreamFailure(j)) => Len(Published(j, "job.update")) = 1

\* C9: when a stage fails (the parameters are unusable, or the LLM call of
\* the whole-response mode raises) the job ends failed with the error text,
\* one job.update (failed) is published, no message.new is published and the
\* job was never persisted as completed.
C9_StageFailureFailsJob ==
    \A j \in DOMAIN task :
        (Done(j) /\ (jobs[j].user_message = ""
                      \/ (WholeConfig /\ task[j].gen = "raise"))) =>
            /\ jobs[j].status = "failed"
            /\ jobs[j].error # <<>>
            /\ Published(j, "job.update") # <<>>
            /\ Published(j, "message.new") = <<>>
            /\ \A k \in DOMAIN jlog[j] : jlog[j][k].status # "completed"

\* C10: when stream.end is published the final content and blocks are stored
\* and the job is persisted as completed; message.new for the message is
\* published after stream.end and carries the stored record; a session that
\* received the stream.end and is still attached when the task is over has
\* received that message.new.
C10_EndOfStreamOrder ==
    \A j \in DOMAIN task :
        LET m == task[j].stream_mid
            ends == Published(j, "message.stream.end")
            news == SelectSeq(Published(j, "message.new"), LAMBDA p : p.ev.message_id = m)
        IN /\ ends # <<>> =>
                /\ jobs[j].status = "completed"
                /\ messages[m].blocks = ends[1].ev.blocks
           /\ news # <<>> =>
                /\ ends # <<>>
                /\ news[1].ev = MessageNew(messages[m])
           /\ \A c \in Channels :
                (Done(j) /\ task[j].adapter = "ended" /\ news # <<>> /\ chan[c] = "open"
                         /\ HasEvent(StreamEvents(c, m), "message.stream.end")) =>
                    \E k \in DOMAIN inbox[c] : inbox[c][k] = news[1].ev

\* ------------------------------------------------------------ deletion
\* delete_conversation: 404 when the conversation is missing (nothing
\* changes); otherwise its messages and the conversation are deleted in one
\* commit.
delete_conversation(conversation_id) ==
    /\ conversation_id \in convs
    /\ removed' = removed \cup {i \in DOMAIN messages :
                                 messages[i].conversation_id = conversation_id}
    /\ convs' = convs \ {conversation_id}
    /\ UNCHANGED <<settings, jobs, messages, registry, chan, inbox, task, jlog, pub, todo,
                   watch, bus, chart, quota, ping, resp, cache, calls, event_bus, run>>

\* The non-streaming worker with conversations being deleted.
InitDelete == Init /\ ~settings.streaming

NextDelete ==
    \/ create_message
    \/ \E c \in Channels : Attach(c)
    \/ \E c \in Channels : ClientClose(c)
    \/ \E c \in Channels : EndpointDisconnect(c)
    \/ \E j \in DOMAIN task : WorkerStart(j)
    \/ \E j \in DOMAIN task : SendCompletes(j)
    \/ \E j \in DOMAIN task : BroadcastResumes(j)
    \/ \E j \in DOMAIN task, o \in GenOutcomes : GenReturns(j, o)
    \/ \E conversation_id \in Conversations : delete_conversation(conversation_id)

SpecDelete == InitDelete /\ [][NextDelete]_vars

\* ------------------------------------------------------------ query results
MaxCalls == 2

\* The SPL texts a client submits: a blank one and an ordinary one.
Queries == { <<"s">>, <<"w">> }

\* earliest_time / latest_time: absent (None or '') or given.
Times == { <<>>, <<"w">> }

\* SplunkQueryResult.generate_query_hash: the digest of
\* f"{query}|{earliest_time or ''}|{latest_time or ''}", taken as the joined
\* text itself.
generate_query_hash(query, earliest_time, latest_time) ==
    query \o <<"|">> \o earliest_time \o <<"|">> \o latest_time

\* select(SplunkQueryResult).where(query_hash == .., user_id == ..).first():
\* row index, 0 for None
SelectResult(rows, query_hash, user_id) ==
    LET hits == {i \in DOMAIN rows : rows[i].query_hash = query_hash
                                     /\ rows[i].user_id = user_id}
    IN IF hits = {} THEN 0 ELSE Min(hits)

\* execute_splunk_query up to await splunk_service.execute_query: a blank
\* query is answered 400; otherwise the stored result is looked up and the
\* query is sent to Splunk.
execute_splunk_query(query, earliest_time, latest_time, current_user) ==
    /\ Len(calls) < MaxCalls
    /\ LET query_hash == generate_query_hash(query, earliest_time, latest_time)
           call == [query_hash |-> query_hash, user_id |-> current_user,
                    existing |-> SelectResult(cache, query_hash, current_user),
                    pc |-> "await_query", result_id |-> 0]
       IN calls' = Append(calls, IF Strip(query) = <<>>
                                 THEN [call EXCEPT !.existing = 0, !.pc = "rejected"]
                                 ELSE call)
    /\ UNCHANGED <<settings, jobs, messages, registry, chan, inbox, task, jlog, pub, todo,
                   watch, bus, chart, quota, ping, resp, cache, convs, removed, event_bus, run>>

\* execute_splunk_query after the await: the row found before the await is
\* updated, or a new row is inserted; its id is returned.
QueryReturns(k) ==
    /\ calls[k].pc = "await_query"
    /\ LET call == calls[k]
           id == IF call.existing # 0 THEN call.existing ELSE Len(cache) + 1
       IN /\ cache' = IF call.existing # 0
                      THEN [cache EXCEPT ![id].writes = @ + 1]
                      ELSE Append(cache, [id |-> id, query_hash |-> call.query_hash,
                                          user_id |-> call.user_id, writes |-> 1])
          /\ calls' = [calls EXCEPT ![k].pc = "done", ![k].result_id = id]
    /\ UNCHANGED <<settings, jobs, messages, registry, chan, inbox, task, jlog, pub, todo,
                   watch, bus, chart, quota, ping, resp, convs, removed, event_bus, run>>

\* execute_splunk_query: splunk_service.execute_query raises; the except
\* clauses answer 400, 504 or 500 and nothing is stored.
QueryRaises(k) ==
    /\ calls[k].pc = "await_query"
    /\ calls' = [calls EXCEPT ![k].pc = "failed"]
    /\ UNCHANGED <<settings, jobs, messages, registry, chan, inbox, task, jlog, pub, todo,
                   watch, bus, chart, quota, ping, resp, cache, convs, removed, event_bus, run>>

InitCache ==
    /\ settings \in {c \in Configs : c.mock}
    /\ jobs = <<>>
    /\ messages = <<>>
    /\ registry = <<>>
    /\ chan = [c \in Channels |-> "new"]
    /\ inbox = [c \in Channels |-> <<>>]
    /\ task = <<>>
    /\ jlog = <<>>
    /\ pub = <<>>
    /\ todo = <<>>
    /\ watch = {}
    /\ bus = <<>>
    /\ chart = <<>>
    /\ quota = 0
    /\ ping = [c \in Channels |-> "idle"]
    /\ resp = NoResponse
    /\ cache = <<>>
    /\ calls = <<>>
    /\ convs = Conversations
    /\ removed = {}
    /\ event_bus = NoBus
    /\ run = NoRun

NextCache ==
    \/ \E query \in Queries, earliest_time \in Times, latest_time \in Times,
          current_user \in {"anonymous", "sub"} :
            execute_splunk_query(query, earliest_time, latest_time, current_user)
    \/ \E k \in DOMAIN calls : QueryReturns(k)
    \/ \E k \in DOMAIN calls : QueryRaises(k)

SpecCache == InitCache /\ [][NextCache]_vars

\* ------------------------------------------------------------ chart worker runs
MaxRuns == 2

\* A queued chart job as JobService.create_job stores it.
QueuedChart(i) == [NewJob(i, "") EXCEPT !.type = "chart"]

\* The RQ queue holds MaxRuns calls of generate_chart_data, for job ids of
\* which the first n have a row in table jobs.
InitWorker ==
    /\ settings \in {c \in Configs : c.mock}
    /\ messages = <<>>
    /\ registry = <<>>
    /\ chan = [c \in Channels |-> "new"]
    /\ inbox = [c \in Channels |-> <<>>]
    /\ task = <<>>
    /\ pub = <<>>
    /\ todo = <<>>
    /\ watch = {}
    /\ bus = <<>>
    /\ quota = 0
    /\ ping = [c \in Channels |-> "idle"]
    /\ resp = NoResponse
    /\ cache = <<>>
    /\ calls = <<>>
    /\ convs = Conversations
    /\ removed = {}
    /\ event_bus = NoBus
    /\ run = NoRun
    /\ \E n \in 0..MaxRuns, ranges \in [1..MaxRuns -> Ranges] :
          /\ jobs = [i \in 1..n |-> QueuedChart(i)]
          /\ jlog = [i \in 1..n |-> <<Snapshot(QueuedChart(i))>>]
          /\ chart = [k \in 1..MaxRuns |->
                         [job_id |-> UuidOf(k), row |-> 0, i |-> 0,
                          range_days |-> ranges[k], pc |-> "queued"]]

\* The RQ worker process takes the calls in queue order and runs each to
\* its end before the next.
WorkerRuns(k) ==
    /\ \A m \in 1..(k - 1) : chart[m].pc = "done"
    /\ \/ ChartStart(k)
       \/ ChartStep(k)
       \/ ChartFinish(k)

NextWorker == \E k \in DOMAIN chart : WorkerRuns(k)

SpecWorker == InitWorker /\ [][NextWorker]_vars /\ WF_vars(NextWorker)

\* ------------------------------------------------------------ event bus use
MaxBusCalls == 4

\* The calls made by tasks (not by callbacks).
TaskCalls == {k \in DOMAIN event_bus.calls : event_bus.calls[k].by = 0}

BusUnchanged ==
    UNCHANGED <<settings, jobs, messages, registry, chan, inbox, task, jlog, pub, todo,
                watch, bus, chart, quota, ping, resp, cache, calls, convs, removed, run>>

\* A task awaits event_bus.subscribe(channel, callback).
subscribe(channel, callback) ==
    /\ Cardinality(TaskCalls) < MaxBusCalls
    /\ event_bus' = BusEnter(event_bus, BusCall("subscribe", channel, callback, 0))
    /\ BusUnchanged

\* A task awaits event_bus.publish(channel, message).
publish(channel) ==
    /\ Cardinality(TaskCalls) < MaxBusCalls
    /\ event_bus' = BusEnter(event_bus, BusCall("publish", channel, "", 0))
    /\ BusUnchanged

\* A call that waited for the lock has been woken and runs.
LockGranted(k) ==
    /\ event_bus.calls[k].pc = "granted"
    /\ event_bus' = BusBody(event_bus, k)
    /\ BusUnchanged

\* The callback awaited by publish, call k, returns or raises an Exception
\* (which publish prints): the loop goes on with the next callback.
HandlerReturns(k) ==
    /\ event_bus.calls[k].pc = "in_handler"
    /\ event_bus.subs[event_bus.calls[k].topic][event_bus.calls[k].idx] = "plain"
    /\ LET call == event_bus.calls[k]
           b1 == [event_bus EXCEPT !.log = Append(@, [ev |-> "end", call |-> k,
                                                      topic |-> call.topic,
                                                      idx |-> call.idx])]
       IN event_bus' = Invoke(b1, k, call.idx + 1)
    /\ BusUnchanged

InitBus == InitCache

NextBus ==
    \/ \E channel \in Topics, callback \in Handlers : subscribe(channel, callback)
    \/ \E channel \in Topics : publish(channel)
    \/ \E k \in DOMAIN event_bus.calls : LockGranted(k)
    \/ \E k \in DOMAIN event_bus.calls : HandlerReturns(k)

SpecBus == InitBus /\ [][NextBus]_vars

\* ------------------------------------------------------------ graph runs
\* What the LLM does when generate_llm_response asks it: a text with or
\* without a fenced block, or an error.
GraphOutcomes ==
    [kind : {"ok"}, text : Responses \cup {<<"w">>, <<"w", "s", "w">>, <<"f", "w", "n", "f">>}]
        \cup [kind : {"raise"}, text : {<<>>}]

GraphUnchanged ==
    UNCHANGED <<settings, jobs, messages, registry, chan, inbox, task, jlog, pub, todo,
                watch, bus, chart, quota, ping, resp, cache, calls, convs, removed,
                event_bus>>

\* A node has run: it is added to the path and the run moves to next.
Visit(r, node, next) == [r EXCEPT !.path = Append(@, node), !.stage = next]

\* node classify_intent and the conditional edge after it
ClassifyIntent ==
    /\ run.stage = "classify_intent"
    /\ LET intent == classify_intent(run.keyword)
       IN run' = [Visit(run, "classify_intent",
                        route_based_on_intent(run.mock, run.llm, intent))
                     EXCEPT !.intent = intent]
    /\ GraphUnchanged

\* node generate_splunk_query: state["splunk_query"] is set in every branch
GenerateSplunkQuery(query) ==
    /\ run.stage = "generate_splunk_query"
    /\ run' = [Visit(run, "generate_splunk_query", "execute_splunk_query")
                  EXCEPT !.splunk_query = query]
    /\ GraphUnchanged

\* node execute_splunk_query and the conditional edge after it
ExecuteSplunkQuery ==
    /\ run.stage = "execute_splunk_query"
    /\ run' = IF run.splunk_query = <<>>
              THEN [Visit(run, "execute_splunk_query", route_after_splunk(run.response_text))
                       EXCEPT !.error = <<"No Splunk query provided">>]
              ELSE [Visit(run, "execute_splunk_query", route_after_splunk(run.response_text))
                       EXCEPT !.blocks = IF HasQueryBlock(@) THEN @
                                         ELSE Append(@, QueryBlock(run.splunk_query))]
    /\ GraphUnchanged

\* node generate_llm_response: the response's text and blocks replace the
\* state's; on an LLM error the node returns the un-awaited coroutine of
\* generate_mock_response and the graph run raises.
GenerateLlmResponse(o) ==
    /\ run.stage = "generate_llm_response"
    /\ run' = IF o.kind = "ok"
              THEN [Visit(run, "generate_llm_response", "format_response_blocks")
                       EXCEPT !.response_text = extract_blocks_from_response(o.text).text,
                              !.blocks = extract_blocks_from_response(o.text).blocks]
              ELSE [Visit(run, "generate_llm_response", "raised")
                       EXCEPT !.error = <<"llm">>]
    /\ GraphUnchanged

\* node generate_mock_response
GenerateMockResponse ==
    /\ run.stage = "generate_mock_response"
    /\ run' = [Visit(run, "generate_mock_response", "format_response_blocks")
                  EXCEPT !.response_text = MockResponse.content,
                         !.blocks = MockResponse.blocks]
    /\ GraphUnchanged

\* node format_response_blocks, then END
FormatResponseBlocks ==
    /\ run.stage = "format_response_blocks"
    /\ run' = [Visit(run, "format_response_blocks", "END")
                  EXCEPT !.blocks = format_response_blocks(@)]
    /\ GraphUnchanged

\* conversation_graph.ainvoke(initial_state) under any configuration and
\* user message.
InitGraph ==
    /\ settings \in {c \in Configs : c.mock}
    /\ jobs = <<>>
    /\ messages = <<>>
    /\ registry = <<>>
    /\ chan = [c \in Channels |-> "new"]
    /\ inbox = [c \in Channels |-> <<>>]
    /\ task = <<>>
    /\ jlog = <<>>
    /\ pub = <<>>
    /\ todo = <<>>
    /\ watch = {}
    /\ bus = <<>>
    /\ chart = <<>>
    /\ quota = 0
    /\ ping = [c \in Channels |-> "idle"]
    /\ resp = NoResponse
    /\ cache = <<>>
    /\ calls = <<>>
    /\ convs = Conversations
    /\ removed = {}
    /\ event_bus = NoBus
    /\ \E keyword \in Keywords, mock \in BOOLEAN, llm \in BOOLEAN :
          run = [NoRun EXCEPT !.stage = "classify_intent", !.keyword = keyword,
                              !.mock = mock, !.llm = llm]

NextGraph ==
    \/ ClassifyIntent
    \/ \E query \in SplQueries : GenerateSplunkQuery(query)
    \/ ExecuteSplunkQuery
    \/ \E o \in GraphOutcomes : GenerateLlmResponse(o)
    \/ GenerateMockResponse
    \/ FormatResponseBlocks

SpecGraph == InitGraph /\ [][NextGraph]_vars

\* ------------------------------------------------------------ message API
MaxRequests == 2

\* Sequences of at most n requests.
RECURSIVE RequestSeqs(_)
RequestSeqs(n) ==
    IF n = 0 THEN {<<>>}
    ELSE LET shorter == RequestSeqs(n - 1)
         IN shorter \cup {Append(q, Request(conversation_id, role, content)) :
                              q \in shorter, conversation_id \in {1, 2},
                              role \in Roles, content \in UserTexts}

\* The message endpoint under any requests, with the mock generator and no
\* WebSocket session.
InitApi ==
    /\ settings \in {c \in Configs : c.mock}
    /\ jobs = <<>>
    /\ messages = <<>>
    /\ registry = <<>>
    /\ chan = [c \in Channels |-> "new"]
    /\ inbox = [c \in Channels |-> <<>>]
    /\ task = <<>>
    /\ jlog = <<>>
    /\ pub = <<>>
    /\ todo \in RequestSeqs(MaxRequests)
    /\ watch = {}
    /\ bus = <<>>
    /\ chart = <<>>
    /\ quota = 0
    /\ ping = [c \in Channels |-> "idle"]
    /\ resp = NoResponse
    /\ cache = <<>>
    /\ calls = <<>>
    /\ convs = Conversations
    /\ removed = {}
    /\ event_bus = NoBus
    /\ run = NoRun

\* No session is attached: a worker's broadcasts return at once.
NextApi ==
    \/ create_message
    \/ \E j \in DOMAIN task : WorkerStart(j)

SpecApi == InitApi /\ [][NextApi]_vars

\* C11: a session may detach at any point of a job: the job still ends in
\* the status it ends in without the detach (failed for unusable parameters,
\* else completed, in the modes that generate a whole response), no failure
\* is published for a job that had usable parameters, and the broadcast of
\* its last event runs to its end.
C11_DetachKeepsJob ==
    \A j \in DOMAIN task :
        (Done(j) /\ ~StreamedConfig) =>
            /\ jobs[j].status = IF jobs[j].user_message = "" THEN "failed" ELSE "completed"
            /\ jobs[j].user_message # "" => Published(j, "job.update") = <<>>
            /\ ~task[j].last.raised

\* C13: when a broadcast has returned, every channel that was registered when
\* it began and is registered still has received the payload, no channel
\* whose send failed is registered still, and no channel it delivered to was
\* removed by it.
C13_BroadcastDelivers ==
    \A j \in DOMAIN task :
        ~task[j].last.raised =>
            /\ task[j].last.unserved = {}
            /\ task[j].last.kept = {}
            /\ task[j].last.dropped = {}

\* C14: whatever attaches and detaches while a broadcast is in progress, the
\* broadcast does not raise and skips no channel that was registered when it
\* began and is registered when it ends.
C14_BroadcastSnapshot ==
    \A j \in DOMAIN task :
        /\ ~task[j].last.raised
        /\ task[j].last.missed = {}

\* A step that delivers the event of task j's broadcast to channel d while
\* the send the broadcast is awaiting stays pending.
DeliverWhileBlocked(j, d) ==
    /\ NextChart
    /\ task'[j].pc = "await_send"
    /\ task'[j].bc.cur = task[j].bc.cur
    /\ task'[j].bc.event = task[j].bc.event
    /\ inbox'[d] = Append(inbox[d], task[j].bc.event)

\* C16: while the send of an event to one channel is pending, the event can
\* still be delivered to any other registered, open channel that has not
\* received it.
C16_SlowSessionNoDelay ==
    \A j \in DOMAIN task : \A d \in Channels :
        (/\ task[j].pc = "await_send"
         /\ d # task[j].bc.cur
         /\ Registered(registry, d)
         /\ chan[d] = "open"
         /\ d \notin task[j].bc.got) => ENABLED DeliverWhileBlocked(j, d)

\* C18: in every persisted state of every job, progress is 100 exactly when
\* the status is completed.
C18_ProgressHundredIffCompleted ==
    \A j \in DOMAIN jlog : \A k \in DOMAIN jlog[j] :
        (jlog[j][k].progress = 100) <=> (jlog[j][k].status = "completed")

\* C20: with the mock flag set or the LLM unavailable no LLM stage and no
\* stream runs for a job, and a job with usable parameters ends completed
\* without ever being failed; with the flag off and the LLM available the
\* mock generator is not chosen.
C20_MockRouting ==
    \A j \in DOMAIN task :
        /\ (settings.mock \/ ~settings.llm) =>
              /\ task[j].gen \in {"idle", "mock"}
              /\ task[j].adapter = "idle"
              /\ task[j].stream_mid = 0
              /\ (Done(j) /\ jobs[j].user_message # "") =>
                    /\ jobs[j].status = "completed"
                    /\ \A k \in DOMAIN jlog[j] : jlog[j][k].status # "failed"
        /\ (~settings.mock /\ settings.llm) => task[j].gen # "mock"

\* C12: a job whose task was cancelled is in a terminal status.
C12_CancelledJobFails ==
    \A j \in DOMAIN task :
        task[j].pc = "cancelled" => jobs[j].status \in {"completed", "failed"}

\* The sends awaited on channel c: those of the broadcasts and the one of
\* its endpoint.
SendsInFlight(c) ==
    Cardinality({j \in DOMAIN task : task[j].pc = "await_send" /\ task[j].bc.cur = c})
        + (IF ping[c] \in {"ack", "ping"} THEN 1 ELSE 0)

\* C15: at no time are two sends awaited on the same channel.
C15_OneSendPerChannel == \A c \in Channels : SendsInFlight(c) <= 1

\* C17: at most one stored result exists for each pair of a query
\* fingerprint and a user.
C17_OneRowPerQuery ==
    \A a, b \in DOMAIN cache :
        (cache[a].query_hash = cache[b].query_hash /\ cache[a].user_id = cache[b].user_id)
            => a = b

C21_RegisteredWhileAttached ==
    \A c \in Channels : Registered(registry, c) => chan[c] \in {"open", "closed"}

\* C28: no detach raises and a detached channel is not registered: the
\* disconnect the endpoint is about to call does not raise, no broadcast's
\* cleanup has raised ValueError, and no channel whose endpoint returned
\* through disconnect is registered.
C28_DetachNeverRaises ==
    /\ \A c \in Channels :
          (chan[c] = "closed" /\ ping[c] = "idle")
              => ~Disconnect(registry, c, UserOf(c)).raised
    /\ \A j \in DOMAIN task : task[j].raised # "ValueError"
    /\ \A c \in Channels :
          (chan[c] = "gone" /\ ping[c] = "idle") => ~Registered(registry, c)

\* C22: every stored message belongs to a stored conversation.
C22_MessagesHaveConversation ==
    \A i \in DOMAIN messages \ removed : messages[i].conversation_id \in convs

\* The events of the log about topic t, in order.
TopicLog(t) == SelectSeq(event_bus.log, LAMBDA e : e.topic = t)

\* C23: on each topic the callbacks are awaited in the order of the publish
\* calls, each subscriber in turn, and no callback starts before the one
\* started before it has ended.
C23_TopicFifo ==
    \A t \in Topics :
        LET l == TopicLog(t)
        IN /\ \A i, j \in DOMAIN l : i < j => l[i].call <= l[j].call
           /\ \A i \in DOMAIN l :
                 l[i].ev = "start" =>
                    /\ i < Len(l) => (l[i + 1].ev = "end" /\ l[i + 1].call = l[i].call
                                      /\ l[i + 1].idx = l[i].idx)
                    /\ \A j \in 1..(i - 1) :
                          (l[j].ev = "start" /\ l[j].call = l[i].call) => l[j].idx < l[i].idx

\* Two publishes on one topic with a subscriber have each been delivered.
C23_Witness ==
    \E t \in Topics :
        /\ Cardinality({k \in DOMAIN event_bus.calls :
                           event_bus.calls[k].kind = "publish" /\ event_bus.calls[k].topic = t
                           /\ event_bus.calls[k].pc = "done"}) >= 2
        /\ Len(TopicLog(t)) >= 4

\* C24: while a callback of one topic is suspended, no publish on another
\* topic is kept waiting.
C24_TopicsIndependent ==
    \A k, m \in DOMAIN event_bus.calls :
        (/\ event_bus.calls[k].pc = "in_handler"
         /\ event_bus.calls[m].kind = "publish"
         /\ event_bus.calls[m].topic # event_bus.calls[k].topic)
            => event_bus.calls[m].pc # "waiting"

\* C29: no call made by a callback waits for the lock that the publish
\* awaiting that callback holds.
C29_NoSelfBlock ==
    \A k \in DOMAIN event_bus.calls :
        (event_bus.calls[k].by # 0 /\ event_bus.calls[k].pc = "waiting")
            => event_bus.owner # event_bus.calls[k].by

\* The statuses persisted for the row with index i, in order.
StatusesOf(i) == [n \in DOMAIN jlog[i] |-> jlog[i][n].status]

\* What a finished run of generate_chart_data has left for call k.
ChartRunDone(k) ==
    LET i == SelectJob(jobs, chart[k].job_id)
        l == StatusesOf(i)
    IN IF i = 0
       THEN \A n \in DOMAIN bus : bus[n].job_id # chart[k].job_id
       ELSE /\ jobs[i].status = "completed"
            /\ jobs[i].progress = 100
            /\ jobs[i].result = ChartResult(chart[k].range_days)
            /\ l[1] = "queued"
            /\ l[Len(l)] = "completed"
            /\ \A n \in 2..(Len(l) - 1) : l[n] \in {"started", "progress"}

Visits(node) == {i \in DOMAIN run.path : run.path[i] = node}

\* C26: a run starts at classify_intent, visits no node twice, does not
\* stop before END, runs execute_splunk_query only right after
\* generate_splunk_query and that only for intent splunk_query, and has run
\* exactly one response generator when the blocks are formatted.
C26_PipelineShape ==
    /\ run.path # <<>> => run.path[1] = "classify_intent"
    /\ \A i, j \in DOMAIN run.path : run.path[i] = run.path[j] => i = j
    /\ run.stage # "raised"
    /\ \A i \in Visits("execute_splunk_query") :
          i > 1 /\ run.path[i - 1] = "generate_splunk_query"
    /\ Visits("generate_splunk_query") # {} => run.intent = "splunk_query"
    /\ Visits("format_response_blocks") # {} =>
          Cardinality(Visits("generate_llm_response")
                      \cup Visits("generate_mock_response")) = 1

\* C30: at the end of a run through execute_splunk_query the blocks hold
\* the query block of the generated query.
C30_QueryBlockKept ==
    (run.stage = "END" /\ Visits("execute_splunk_query") # {})
        => \E i \in DOMAIN run.blocks : run.blocks[i] = QueryBlock(run.splunk_query)

\* The assistant messages stored.
AssistantMessages == {i \in DOMAIN messages \ removed : messages[i].role = "assistant"}

\* C27: the jobs store at most one assistant message each, and each job
\* publishes at most one message.new event.
C27_OneAssistantMessage ==
    /\ Cardinality(AssistantMessages) <= Len(jobs)
    /\ \A j \in DOMAIN task : Len(Published(j, "message.new")) <= 1

====
